---- MODULE Spec2Model ----
(***************************************************************************)
(* HUDS menu scraper: text normalisation, category classification, the    *)
(* per-meal page walk, the week assembler, the JSON file storage and the   *)
(* /api/refresh, /api/cron, /api/today and /api/week handlers.             *)
(*                                                                         *)
(* Text is a sequence of one-character strings.  The two-character tokens  *)
(* "e^" and "E^" stand for the letters e-acute and E-acute, "bullet" and   *)
(* "middot" for U+2022 and U+00B7.  Python's None is the empty sequence    *)
(* where an optional document is read, and the string "None" where a       *)
(* bucket name is expected.                                                *)
(***************************************************************************)
EXTENDS Integers, Sequences, FiniteSets, TLC

\* ------------------------------------------------------------------ bounds
MaxElems == 3
MaxPad == 2
MaxTicks == 1
MaxRuns == 2
MaxDishDays == 1
MaxText == 6

\* --------------------------------------------------------- text primitives
WS == {" ", "\t"}

UpperChars == <<"A","B","C","D","E","F","G","H","I","J","K","L","M",
                "N","O","P","Q","R","S","T","U","V","W","X","Y","Z","E^">>
LowerChars == <<"a","b","c","d","e","f","g","h","i","j","k","l","m",
                "n","o","p","q","r","s","t","u","v","w","x","y","z","e^">>

LowerChar(c) ==
    IF \E n \in 1..Len(UpperChars) : UpperChars[n] = c
    THEN LowerChars[CHOOSE n \in 1..Len(UpperChars) : UpperChars[n] = c]
    ELSE c

Lower(s) == [n \in 1..Len(s) |-> LowerChar(s[n])]

RECURSIVE LStrip(_, _)
LStrip(s, chars) ==
    IF s = <<>> THEN <<>>
    ELSE IF Head(s) \in chars THEN LStrip(Tail(s), chars)
    ELSE s

RECURSIVE RStrip(_, _)
RStrip(s, chars) ==
    IF s = <<>> THEN <<>>
    ELSE IF s[Len(s)] \in chars THEN RStrip(SubSeq(s, 1, Len(s) - 1), chars)
    ELSE s

Strip(s, chars) == RStrip(LStrip(s, chars), chars)

StartsWith(s, p) == Len(s) >= Len(p) /\ SubSeq(s, 1, Len(p)) = p

\* str.replace(old, ""): leftmost non-overlapping occurrences are removed
RECURSIVE RemoveAll(_, _)
RemoveAll(s, old) ==
    IF s = <<>> THEN <<>>
    ELSE IF StartsWith(s, old) THEN RemoveAll(SubSeq(s, Len(old) + 1, Len(s)), old)
    ELSE <<Head(s)>> \o RemoveAll(Tail(s), old)

\* re.sub(r"^-+|-+$", "", cat)
StripDashRuns(s) == RStrip(LStrip(s, {"-"}), {"-"})

\* ------------------------------------------------------ _classify_category
T_todays_soup == <<"t","o","d","a","y","'","s"," ","s","o","u","p">>
T_entrees == <<"e","n","t","r","e","e","s">>
T_entree_acute == <<"e","n","t","r","e^","e">>
T_veg_vegan == <<"v","e","g",",","v","e","g","a","n">>
T_starch_and_potatoes == <<"s","t","a","r","c","h"," ","a","n","d"," ",
                           "p","o","t","a","t","o","e","s">>
T_vegetables == <<"v","e","g","e","t","a","b","l","e","s">>
T_desserts == <<"d","e","s","s","e","r","t","s">>
T_delish == <<"d","e","l","i","s","h">>

BUCKET_ORDER == <<"soups", "entrees", "starch_potatoes", "vegetables", "delish", "desserts">>

CleanCategory(cat_raw) ==
    LET c1 == Lower(cat_raw)
        c2 == Strip(StripDashRuns(c1), WS)
    IN  Strip(RemoveAll(c2, <<"-", "-">>), WS)

MatchCategory(cat) ==
    IF cat = T_todays_soup THEN "soups"
    ELSE IF cat \in {T_entrees, T_entree_acute, T_veg_vegan} THEN "entrees"
    ELSE IF cat = T_starch_and_potatoes THEN "starch_potatoes"
    ELSE IF cat = T_vegetables THEN "vegetables"
    ELSE IF cat = T_desserts THEN "desserts"
    ELSE IF cat = T_delish THEN "delish"
    ELSE "None"

_classify_category(cat_raw) ==
    IF cat_raw = <<>> THEN "None" ELSE MatchCategory(CleanCategory(cat_raw))

\* --------------------------------------------------------- _normalize_text
MARKERS == {
    <<"c","o","n","t","a","i","n","s">>, <<"g","f">>, <<"v">>,
    <<"v","e","g","a","n">>, <<"v","e","g","e","t","a","r","i","a","n">>,
    <<"h","a","l","a","l">>, <<"k","o","s","h","e","r">>, <<"k","c","a","l">>,
    <<"c","a","l">>, <<"s","o","y">>, <<"m","i","l","k">>, <<"e","g","g">>,
    <<"w","h","e","a","t">>, <<"g","l","u","t","e","n">>,
    <<"t","r","e","e"," ","n","u","t","s">>, <<"p","e","a","n","u","t">>,
    <<"s","h","e","l","l","f","i","s","h">>, <<"f","i","s","h">>,
    <<"s","e","s","a","m","e">> }

STRIP_CHARS == {" ", "-", "bullet", "middot", ","}

\* re.sub(r"\s+", " ", s)
RECURSIVE CollapseWs(_)
CollapseWs(s) ==
    IF s = <<>> THEN <<>>
    ELSE IF Head(s) \in WS THEN <<" ">> \o CollapseWs(LStrip(s, WS))
    ELSE <<Head(s)>> \o CollapseWs(Tail(s))

\* re.sub(r"\s{2,}", " ", s): a lone whitespace character is kept as it is
RECURSIVE CollapseWsRuns(_)
CollapseWsRuns(s) ==
    IF s = <<>> THEN <<>>
    ELSE IF Len(s) >= 2 /\ s[1] \in WS /\ s[2] \in WS
         THEN <<" ">> \o CollapseWsRuns(LStrip(s, WS))
    ELSE <<Head(s)>> \o CollapseWsRuns(Tail(s))

\* t follows a "(": the marker alternation matches (re.I), then [^)]*, then ")"
MarkerGroupAt(t) ==
    /\ \E n \in 1..Len(t) : t[n] = ")"
    /\ \E m \in MARKERS : StartsWith(Lower(t), m)

AfterFirstClose(t) ==
    LET n == CHOOSE n \in 1..Len(t) : t[n] = ")" /\ \A q \in 1..(n - 1) : t[q] # ")"
    IN  SubSeq(t, n + 1, Len(t))

\* re.sub(r"\((?:contains|gf|...)[^)]*\)", "", s, flags=re.I)
RECURSIVE RemoveMarkerGroups(_)
RemoveMarkerGroups(s) ==
    IF s = <<>> THEN <<>>
    ELSE IF Head(s) = "(" /\ MarkerGroupAt(Tail(s))
         THEN RemoveMarkerGroups(AfterFirstClose(Tail(s)))
    ELSE <<Head(s)>> \o RemoveMarkerGroups(Tail(s))

_normalize_text(s) ==
    LET s1 == Strip(CollapseWs(s), WS)
        s2 == RemoveMarkerGroups(s1)
    IN  Strip(CollapseWsRuns(s2), STRIP_CHARS)

\* -------------------------------------------------------- _dedupe_preserve
RECURSIVE DedupeFrom(_, _, _)
DedupeFrom(seq, seen, acc) ==
    IF seq = <<>> THEN acc
    ELSE LET x == Head(seq)
         IN  IF x # <<>> /\ x \notin seen
             THEN DedupeFrom(Tail(seq), seen \cup {x}, Append(acc, x))
             ELSE DedupeFrom(Tail(seq), seen, acc)

RECURSIVE Reverse(_)
Reverse(seq) == IF seq = <<>> THEN <<>> ELSE Append(Reverse(Tail(seq)), Head(seq))

DedupeKeepLast(seq) == Reverse(DedupeFrom(Reverse(seq), {}, <<>>))

_dedupe_preserve(seq) == DedupeFrom(seq, {}, <<>>)

\* ------------------------------------------------------ meals and day menus
Buckets == {BUCKET_ORDER[n] : n \in 1..Len(BUCKET_ORDER)}

\* {k: [] for k in BUCKET_ORDER}
EmptyMealData ==
    [soups |-> <<>>, entrees |-> <<>>, starch_potatoes |-> <<>>,
     vegetables |-> <<>>, delish |-> <<>>, desserts |-> <<>>]

_init_meal_bucket(include_delish) ==
    LET meal == EmptyMealData
    IN  IF ~include_delish THEN [meal EXCEPT !["delish"] = <<>>] ELSE meal

\* --------------------------------------------------- _parse_meal_container
CAT_CLASS == "shortmenucats"
RECIPE_CLASS == "shortmenurecipes"

WalkElemKeepsBucket(st, elem) ==
    IF CAT_CLASS \in elem.classes
    THEN IF _classify_category(elem.text) # "None"
         THEN [st EXCEPT !.cur = _classify_category(elem.text)]
         ELSE st
    ELSE IF RECIPE_CLASS \in elem.classes /\ st.cur # "None"
    THEN IF _normalize_text(elem.text) = <<>> THEN st
         ELSE [st EXCEPT !.data[st.cur] = Append(@, _normalize_text(elem.text))]
    ELSE st

WalkElemStoresBlank(st, elem) ==
    IF CAT_CLASS \in elem.classes
    THEN [st EXCEPT !.cur = _classify_category(elem.text)]
    ELSE IF RECIPE_CLASS \in elem.classes /\ st.cur # "None"
    THEN [st EXCEPT !.data[st.cur] = Append(@, _normalize_text(elem.text))]
    ELSE st

\* one iteration of the loop over all_elements; st = [cur, data]
WalkElem(st, elem) ==
    IF CAT_CLASS \in elem.classes
    THEN [st EXCEPT !.cur = _classify_category(elem.text)]
    ELSE IF RECIPE_CLASS \in elem.classes /\ st.cur # "None"
    THEN LET dish_raw == _normalize_text(elem.text)
         IN  IF dish_raw = <<>> THEN st
             ELSE [st EXCEPT !.data[st.cur] = Append(@, dish_raw)]
    ELSE st

WalkInit == [cur |-> "None", data |-> EmptyMealData]

RECURSIVE WalkAll(_, _)
WalkAll(st, elems) ==
    IF elems = <<>> THEN st ELSE WalkAll(WalkElem(st, Head(elems)), Tail(elems))

MealNameLower(meal_name) ==
    IF meal_name = "Lunch" THEN "lunch"
    ELSE IF meal_name = "Dinner" THEN "dinner"
    ELSE meal_name

FinishMealKeepsDelish(data, meal_name) ==
    [soups           |-> _dedupe_preserve(data.soups),
     entrees         |-> _dedupe_preserve(data.entrees),
     starch_potatoes |-> _dedupe_preserve(data.starch_potatoes),
     vegetables      |-> _dedupe_preserve(data.vegetables),
     delish          |-> _dedupe_preserve(data.delish),
     desserts        |-> _dedupe_preserve(data.desserts)]

\* the code after the loop: dedupe every bucket, then blank dinner's delish
FinishMeal(data, meal_name) ==
    LET deduped == [soups           |-> _dedupe_preserve(data.soups),
                    entrees         |-> _dedupe_preserve(data.entrees),
                    starch_potatoes |-> _dedupe_preserve(data.starch_potatoes),
                    vegetables      |-> _dedupe_preserve(data.vegetables),
                    delish          |-> _dedupe_preserve(data.delish),
                    desserts        |-> _dedupe_preserve(data.desserts)]
    IN  IF MealNameLower(meal_name) = "dinner"
        THEN [deduped EXCEPT !["delish"] = <<>>]
        ELSE deduped

_parse_meal_container(elems, meal_name) ==
    FinishMeal(WalkAll(WalkInit, elems).data, meal_name)

\* ---------------------------------------------------------------- parse_day
\* A page is the pair of meal columns BeautifulSoup finds in it: each is
\* <<>> when the column is missing, or <<elems>> with the column's
\* category-header and dish elements in document order.
parse_day(html) ==
    [lunch  |-> IF html.lunch # <<>>
                THEN _parse_meal_container(html.lunch[1], "Lunch")
                ELSE _init_meal_bucket(TRUE),
     dinner |-> IF html.dinner # <<>>
                THEN _parse_meal_container(html.dinner[1], "Dinner")
                ELSE _init_meal_bucket(FALSE)]


\* ---------------------------------------------------------------- week_utils
\* A date is its number of days since 1970-01-01 (a Thursday); the clock is
\* the number of hours since 1970-01-01T00:00Z.
NY_UTC_OFFSET == 5

\* date.weekday(): Monday = 0
weekday(d) == (d + 3) % 7

\* date.isoformat(): the proleptic Gregorian <<year, month, day>>
isoformat(d) ==
    LET z   == d + 719468
        era == z \div 146097
        doe == z - era * 146097
        yoe == (doe - doe \div 1460 + doe \div 36524 - doe \div 146096) \div 365
        doy == doe - (365 * yoe + yoe \div 4 - yoe \div 100)
        mp  == (5 * doy + 2) \div 153
        dd  == doy - (153 * mp + 2) \div 5 + 1
        m   == IF mp < 10 THEN mp + 3 ELSE mp - 9
        y   == yoe + era * 400 + (IF m <= 2 THEN 1 ELSE 0)
    IN  <<y, m, dd>>

today_ny_date(now) == (now - NY_UTC_OFFSET) \div 24

start_of_week(d) == d - weekday(d)

end_of_week(d) == start_of_week(d) + 6

week_date_list(d) == [n \in 1..7 |-> start_of_week(d) + (n - 1)]

\* utc_now_iso(): UTC date and time of day, "Z"-suffixed
utc_now_iso(now) == isoformat(now \div 24) \o <<now % 24, "Z">>

\* ------------------------------------------------------------------- pages
Elem(cls, text) == [classes |-> {cls}, text |-> text]

H_TodaysSoup == <<"-","-"," ","T","o","d","a","y","'","s"," ","S","o","u","p"," ","-","-">>
H_Delish == <<"-","-"," ","D","e","l","i","s","h"," ","-","-">>
H_SaladBar == <<"S","a","l","a","d"," ","B","a","r">>
D_TomatoBasil == <<"T","o","m","a","t","o"," ","B","a","s","i","l"," ",
                   "(","c","o","n","t","a","i","n","s"," ","d","a","i","r","y",")">>
D_Smoothie == <<"S","m","o","o","t","h","i","e">>
D_OnlyMarker == <<"(","G","F",")">>
D_Rice == <<"R","i","c","e">>
D_TomatoBasilPlain == <<"T","o","m","a","t","o"," ","B","a","s","i","l">>

\* a page with a soup at lunch and a mislabelled Delish station at dinner
DishPage ==
    [lunch  |-> << <<Elem(CAT_CLASS, H_TodaysSoup), Elem(RECIPE_CLASS, D_TomatoBasil)>> >>,
     dinner |-> << <<Elem(CAT_CLASS, H_Delish), Elem(RECIPE_CLASS, D_Smoothie)>> >>]

\* a page without meal columns, and a page whose only station is ignored
NoMenuPage == [lunch |-> <<>>, dinner |-> <<>>]
SaladPage ==
    [lunch  |-> << <<Elem(CAT_CLASS, H_SaladBar), Elem(RECIPE_CLASS, D_Rice)>> >>,
     dinner |-> <<>>]

\* a page that lists the soup again after another dish
DupPage ==
    [lunch  |-> << <<Elem(CAT_CLASS, H_TodaysSoup), Elem(RECIPE_CLASS, D_TomatoBasil),
                     Elem(RECIPE_CLASS, D_Smoothie), Elem(RECIPE_CLASS, D_TomatoBasilPlain)>> >>,
     dinner |-> <<>>]

WeekPages == {DishPage, NoMenuPage, SaladPage}

FetchOutcomes ==
    {[kind |-> "fetch_failed", html |-> NoMenuPage],
     [kind |-> "exception", html |-> NoMenuPage]}
    \cup {[kind |-> "html", html |-> p] : p \in WeekPages}

MEALS == <<"lunch", "dinner">>

\* any(day_data[meal][bucket] for meal in ("lunch", "dinner") for bucket in BUCKET_ORDER)
AnyDish(day_data) ==
    \E mi \in 1..Len(MEALS) : \E bi \in 1..Len(BUCKET_ORDER) :
        day_data[MEALS[mi]][BUCKET_ORDER[bi]] # <<>>

EmptyDay == [lunch |-> _init_meal_bucket(TRUE), dinner |-> _init_meal_bucket(FALSE)]

\* dict[key] = val on an insertion-ordered dict kept as a sequence of entries
DictSet(dict, key, val) ==
    IF \E n \in 1..Len(dict) : dict[n].key = key
    THEN [n \in 1..Len(dict) |-> IF dict[n].key = key THEN [key |-> key, val |-> val] ELSE dict[n]]
    ELSE Append(dict, [key |-> key, val |-> val])

\* ----------------------------------------------------------------- storage
\* A JSON file is <<>> when it does not exist and <<data>> when it holds data.
read_json_file(file) == file

OkStatus(now) == [last_scrape_ok |-> TRUE, error |-> "None", updated_at |-> utc_now_iso(now)]
FailStatus(kind, now) == [last_scrape_ok |-> FALSE, error |-> kind, updated_at |-> utc_now_iso(now)]

\* the week.json and status.json shipped with the deployment: last week's scrape
DeployedClock == 20094 * 24 + 12
DeployedWeek ==
    [week_start   |-> isoformat(20094),
     week_end     |-> isoformat(20094 + 6),
     generated_at |-> utc_now_iso(DeployedClock),
     meals        |-> [n \in 1..7 |->
                         [key |-> isoformat(20094 + n - 1),
                          val |-> IF n = 1 THEN parse_day(DishPage) ELSE EmptyDay]]]

\* ------------------------------------------------------------------- state
VARIABLES
    clock,       \* hours since the epoch, UTC
    ticks,       \* how often the clock has advanced
    writable,    \* whether api/data accepts writes (it does not on Vercel)
    weekFile, statusFile,   \* api/data/week.json, api/data/status.json
    weekTmp, statusTmp,     \* /tmp/week.json, /tmp/status.json
    pc,          \* position of the scrape_and_store call
    runs,        \* /api/refresh and /api/cron requests started
    dates, s_date, e_date,  \* parse_week: dates; week_bounds_iso: s, e
    out, any_item, k,       \* parse_week: out, any_item, loop position
    dishDays,    \* pages served so far that listed a dish
    fetched,     \* the dates this run has called fetch_html_for_day with
    lastKind,    \* how the latest of these calls (and its parse) ended
    result,      \* how the last scrape_and_store call ended
    req,         \* the request being handled: "none", "refresh" or "cron"
    http,        \* status code /api/refresh has answered the request with, 0 if none
    emailDay,    \* <<day_json>> /api/cron has given to send_daily_email, <<>> if none
    heading, bucketOut,          \* _classify_category: argument and return value
    page, phase, pos, walk, parsed,  \* parse_day: argument, meal being parsed,
                                 \* elements walked, loop state, return value
    dishText, cleanText          \* _normalize_text: argument and return value

vars == <<clock, ticks, writable, weekFile, statusFile, weekTmp, statusTmp,
          pc, runs, dates, s_date, e_date, out, any_item, k, dishDays,
          fetched, lastKind, result, req, http, emailDay,
          heading, bucketOut, page, phase, pos,
          walk, parsed, dishText, cleanText>>

weekVars == <<clock, ticks, writable, weekFile, statusFile, weekTmp, statusTmp,
              pc, runs, dates, s_date, e_date, out, any_item, k, dishDays,
              fetched, lastKind, result, req, http, emailDay>>
classifyVars == <<heading, bucketOut>>
dayVars == <<page, phase, pos, walk, parsed>>
normVars == <<dishText, cleanText>>

storeVars == <<weekFile, statusFile, weekTmp, statusTmp>>
localVars == <<dates, s_date, e_date, out, any_item, k>>
apiVars == <<req, http, emailDay>>

\* storage.read_week(), storage.read_status(): only api/data is ever read
read_week == read_json_file(weekFile)
read_status == read_json_file(statusFile)

\* /api/week
api_week ==
    IF read_week = <<>>
    THEN [code |-> 500, body |-> [error |-> "parse_failed"]]
    ELSE [code |-> 200, body |-> read_week[1]]

\* /api/health
api_health == [ok |-> IF read_status = <<>> THEN FALSE ELSE read_status[1].last_scrape_ok]

\* week_json.get("meals", {}).get(today)
DictGet(dict, key) ==
    IF \E n \in 1..Len(dict) : dict[n].key = key
    THEN <<dict[CHOOSE n \in 1..Len(dict) : dict[n].key = key].val>>
    ELSE <<>>

\* the empty structure api_today answers with when today is not in the document
FallbackDay ==
    [lunch  |-> [soups |-> <<>>, entrees |-> <<>>, starch_potatoes |-> <<>>,
                 vegetables |-> <<>>, delish |-> <<>>, desserts |-> <<>>],
     dinner |-> [soups |-> <<>>, entrees |-> <<>>, starch_potatoes |-> <<>>,
                 vegetables |-> <<>>, desserts |-> <<>>]]

\* /api/today
api_today(now) ==
    IF read_week = <<>>
    THEN [code |-> 500, body |-> [error |-> "parse_failed"]]
    ELSE LET today == isoformat(today_ny_date(now))
             day   == DictGet(read_week[1].meals, today)
         IN  [code |-> 200, body |-> IF day = <<>> THEN FallbackDay ELSE day[1]]

\* /api/refresh: the status code answered for the way scrape_and_store ended
\* (an exception that is not a ScrapeError leaves the handler: a server error)
api_refresh_code(res) ==
    IF res.status = "returned" THEN 200
    ELSE IF res.kind = "fetch_failed" THEN 503
    ELSE 500

\* scrape_and_store has ended: api_refresh answers, api_cron goes on to the email
ReturnToCaller(res) ==
    /\ http' = IF req = "refresh" THEN api_refresh_code(res) ELSE http
    /\ req' = IF req = "refresh" THEN "none" ELSE req
    /\ UNCHANGED emailDay

StartClocks == {20103 * 24 + 12, 20108 * 24 + 1}

NoOut == [week_start |-> <<>>, week_end |-> <<>>, generated_at |-> <<>>, meals |-> <<>>]
NoResult == [status |-> "none", kind |-> "None", doc |-> NoOut]

\* the variables of a specification that does not use them
IdleWeek ==
    /\ clock = 0 /\ ticks = 0 /\ writable = TRUE
    /\ weekFile = <<>> /\ statusFile = <<>> /\ weekTmp = <<>> /\ statusTmp = <<>>
    /\ pc = "idle" /\ runs = 0
    /\ dates = <<>> /\ s_date = 0 /\ e_date = 0
    /\ out = NoOut /\ any_item = FALSE /\ k = 0
    /\ dishDays = 0 /\ fetched = <<>> /\ lastKind = "None" /\ result = NoResult
    /\ req = "none" /\ http = 0 /\ emailDay = <<>>
IdleClassify == heading = <<>> /\ bucketOut = "unset"
IdleDay ==
    /\ page = NoMenuPage /\ phase = "done" /\ pos = 0
    /\ walk = WalkInit /\ parsed = EmptyDay
Unset == <<"unset">>
IdleNormalize == dishText = <<>> /\ cleanText = Unset

Init ==
    /\ IdleClassify /\ IdleDay /\ IdleNormalize
    /\ clock \in StartClocks
    /\ ticks = 0
    /\ writable \in BOOLEAN
    /\ \/ weekFile = <<>> /\ statusFile = <<>>
       \/ weekFile = <<DeployedWeek>> /\ statusFile = <<OkStatus(DeployedClock)>>
    /\ weekTmp = <<>> /\ statusTmp = <<>>
    /\ pc = "idle"
    /\ runs = 0
    /\ dates = <<>> /\ s_date = 0 /\ e_date = 0
    /\ out = NoOut /\ any_item = FALSE /\ k = 0
    /\ dishDays = 0
    /\ fetched = <<>>
    /\ lastKind = "None"
    /\ result = NoResult
    /\ req = "none" /\ http = 0 /\ emailDay = <<>>

\* "for d in dates" has gone through every date
LoopDoneEarly == k > Len(dates) \/ (k > 1 /\ ~any_item)
LoopDone == k > Len(dates)

\* time passes; the loop over the dates reads no clock, so time passing in it
\* is time passing at its end
Tick ==
    /\ UNCHANGED <<classifyVars, dayVars, normVars>>
    /\ ticks < MaxTicks
    /\ pc = "loop" => LoopDone
    /\ clock' = clock + 12
    /\ ticks' = ticks + 1
    /\ UNCHANGED <<writable, storeVars, pc, runs, localVars, dishDays, fetched, lastKind, result,
                   apiVars>>

\* /api/refresh: scrape_and_store() is called; parse_week: dates = week_date_list()
CallScrape ==
    /\ UNCHANGED <<classifyVars, dayVars, normVars>>
    /\ pc = "idle"
    /\ req = "none"
    /\ req' = "refresh"
    /\ http' = 0 /\ emailDay' = <<>>
    /\ runs < MaxRuns
    /\ runs' = runs + 1
    /\ dates' = week_date_list(today_ny_date(clock))
    /\ fetched' = <<>>
    /\ lastKind' = "None"
    /\ result' = NoResult
    /\ pc' = "bounds_start"
    /\ UNCHANGED <<clock, ticks, writable, storeVars, s_date, e_date, out, any_item, k,
                   dishDays>>

\* week_bounds_iso: s = start_of_week(d)
BoundsStart ==
    /\ UNCHANGED <<classifyVars, dayVars, normVars>>
    /\ pc = "bounds_start"
    /\ s_date' = start_of_week(today_ny_date(clock))
    /\ pc' = "bounds_end"
    /\ UNCHANGED <<clock, ticks, writable, storeVars, runs, dates, e_date, out,
                   any_item, k, dishDays, fetched, lastKind, result, apiVars>>

\* week_bounds_iso: e = end_of_week(d)
BoundsEnd ==
    /\ UNCHANGED <<classifyVars, dayVars, normVars>>
    /\ pc = "bounds_end"
    /\ e_date' = end_of_week(today_ny_date(clock))
    /\ pc' = "stamp"
    /\ UNCHANGED <<clock, ticks, writable, storeVars, runs, dates, s_date, out,
                   any_item, k, dishDays, fetched, lastKind, result, apiVars>>

\* parse_week: out = {...}; any_item = False
Stamp ==
    /\ UNCHANGED <<classifyVars, dayVars, normVars>>
    /\ pc = "stamp"
    /\ out' = [week_start   |-> isoformat(s_date),
               week_end     |-> isoformat(e_date),
               generated_at |-> utc_now_iso(clock),
               meals        |-> <<>>]
    /\ any_item' = FALSE
    /\ k' = 1
    /\ pc' = "loop"
    /\ UNCHANGED <<clock, ticks, writable, storeVars, runs, dates, s_date, e_date,
                   dishDays, fetched, lastKind, result, apiVars>>

\* day_data = parse_day(html), for each page the site serves
ParsedPages == [p \in WeekPages |-> parse_day(p)]

\* what the try/except of the loop body leaves in day_data
DayData(r) == IF r.kind = "fetch_failed" THEN EmptyDay ELSE ParsedPages[r.html]

\* the clause "except ScrapeError": the outcomes that leave the loop body
EscapesFetchFailed(r) == r.kind \in {"exception", "fetch_failed"}
Escapes(r) == r.kind = "exception"

\* parse_week: one iteration of "for d in dates"
FetchDay ==
    /\ UNCHANGED <<classifyVars, dayVars, normVars>>
    /\ pc = "loop"
    /\ ~LoopDone
    /\ \E r \in FetchOutcomes :
         /\ (r.kind = "html" /\ AnyDish(ParsedPages[r.html])) => dishDays < MaxDishDays
         /\ fetched' = Append(fetched, dates[k])
         /\ lastKind' = r.kind
         /\ IF Escapes(r)
            THEN /\ pc' = "idle"
                 /\ result' = [status |-> "raised", kind |-> r.kind, doc |-> NoOut]
                 /\ dates' = <<>> /\ s_date' = 0 /\ e_date' = 0
                 /\ out' = NoOut /\ any_item' = FALSE /\ k' = 0
                 /\ ReturnToCaller(result')
                 /\ UNCHANGED dishDays
            ELSE LET day_data == DayData(r)
                 IN  /\ any_item' = (any_item \/ AnyDish(day_data))
                     /\ out' = [out EXCEPT !.meals = DictSet(@, isoformat(dates[k]), day_data)]
                     /\ dishDays' = IF AnyDish(day_data) THEN dishDays + 1 ELSE dishDays
                     /\ k' = k + 1
                     /\ UNCHANGED <<pc, result, dates, s_date, e_date, apiVars>>
    /\ UNCHANGED <<clock, ticks, writable, storeVars, runs>>

\* parse_week after the loop: raise parse_failed or return out
EndLoop ==
    /\ UNCHANGED <<classifyVars, dayVars, normVars>>
    /\ pc = "loop"
    /\ LoopDone
    /\ IF ~any_item
       THEN /\ pc' = "write_status_fail"
            /\ result' = [status |-> "raising", kind |-> "parse_failed", doc |-> NoOut]
       ELSE /\ pc' = "write_week"
            /\ UNCHANGED result
    /\ UNCHANGED <<clock, ticks, writable, storeVars, runs, dates, s_date, e_date,
                   out, any_item, k, dishDays, fetched, lastKind, apiVars>>

\* write_json_file: the file under api/data, or /tmp when that write fails
WriteTarget(data) == IF writable THEN "data" ELSE "tmp"

\* scrape_and_store: storage.write_week(data)
WriteWeek ==
    /\ UNCHANGED <<classifyVars, dayVars, normVars>>
    /\ pc = "write_week"
    /\ IF WriteTarget(out) = "data"
       THEN weekFile' = <<out>> /\ UNCHANGED weekTmp
       ELSE weekTmp' = <<out>> /\ UNCHANGED weekFile
    /\ pc' = "write_status_ok"
    /\ UNCHANGED <<clock, ticks, writable, statusFile, statusTmp, runs, localVars,
                   dishDays, fetched, lastKind, result, apiVars>>

\* scrape_and_store: storage.write_status({ok}); return data
WriteStatusOk ==
    /\ UNCHANGED <<classifyVars, dayVars, normVars>>
    /\ pc = "write_status_ok"
    /\ LET st == OkStatus(clock)
       IN  IF WriteTarget(st) = "data"
           THEN statusFile' = <<st>> /\ UNCHANGED statusTmp
           ELSE statusTmp' = <<st>> /\ UNCHANGED statusFile
    /\ result' = [status |-> "returned", kind |-> "None", doc |-> out]
    /\ ReturnToCaller(result')
    /\ pc' = "idle"
    /\ dates' = <<>> /\ s_date' = 0 /\ e_date' = 0
    /\ out' = NoOut /\ any_item' = FALSE /\ k' = 0
    /\ UNCHANGED <<clock, ticks, writable, weekFile, weekTmp, runs, dishDays, fetched, lastKind>>

WriteStatusFailClearsWeek ==
    /\ UNCHANGED <<classifyVars, dayVars, normVars>>
    /\ pc = "write_status_fail"
    /\ statusFile' = <<FailStatus(result.kind, clock)>>
    /\ weekFile' = <<>>
    /\ result' = [result EXCEPT !.status = "raised"]
    /\ ReturnToCaller(result')
    /\ pc' = "idle"
    /\ dates' = <<>> /\ s_date' = 0 /\ e_date' = 0
    /\ out' = NoOut /\ any_item' = FALSE /\ k' = 0
    /\ UNCHANGED <<clock, ticks, writable, weekTmp, statusTmp, runs, dishDays, fetched, lastKind>>

\* scrape_and_store: except ScrapeError as e: storage.write_status({failed}); raise
WriteStatusFail ==
    /\ UNCHANGED <<classifyVars, dayVars, normVars>>
    /\ pc = "write_status_fail"
    /\ LET st == FailStatus(result.kind, clock)
       IN  IF WriteTarget(st) = "data"
           THEN statusFile' = <<st>> /\ UNCHANGED statusTmp
           ELSE statusTmp' = <<st>> /\ UNCHANGED statusFile
    /\ result' = [result EXCEPT !.status = "raised"]
    /\ ReturnToCaller(result')
    /\ pc' = "idle"
    /\ dates' = <<>> /\ s_date' = 0 /\ e_date' = 0
    /\ out' = NoOut /\ any_item' = FALSE /\ k' = 0
    /\ UNCHANGED <<clock, ticks, writable, weekFile, weekTmp, runs, dishDays, fetched, lastKind>>

CronStartAlways ==
    /\ UNCHANGED <<classifyVars, dayVars, normVars>>
    /\ pc = "idle"
    /\ req = "none"
    /\ runs < MaxRuns
    /\ runs' = runs + 1
    /\ req' = "cron"
    /\ dates' = week_date_list(today_ny_date(clock))
    /\ fetched' = <<>>
    /\ lastKind' = "None"
    /\ result' = NoResult
    /\ pc' = "bounds_start"
    /\ http' = 0 /\ emailDay' = <<>>
    /\ UNCHANGED <<clock, ticks, writable, storeVars, s_date, e_date, out, any_item, k,
                   dishDays>>

\* /api/cron: scrape_and_store() is called only if read_week() finds nothing
CronStart ==
    /\ UNCHANGED <<classifyVars, dayVars, normVars>>
    /\ pc = "idle"
    /\ req = "none"
    /\ runs < MaxRuns
    /\ runs' = runs + 1
    /\ req' = "cron"
    /\ IF read_week = <<>>
       THEN /\ dates' = week_date_list(today_ny_date(clock))
            /\ fetched' = <<>>
            /\ lastKind' = "None"
            /\ result' = NoResult
            /\ pc' = "bounds_start"
       ELSE UNCHANGED <<dates, fetched, lastKind, result, pc>>
    /\ http' = 0 /\ emailDay' = <<>>
    /\ UNCHANGED <<clock, ticks, writable, storeVars, s_date, e_date, out, any_item, k,
                   dishDays>>

\* /api/cron after "try: ... except Exception: pass": send_daily_email(day_json)
CronEmail ==
    /\ UNCHANGED <<classifyVars, dayVars, normVars>>
    /\ pc = "idle"
    /\ req = "cron"
    /\ emailDay' = <<api_today(clock).body>>
    /\ req' = "none"
    /\ UNCHANGED <<clock, ticks, writable, storeVars, pc, runs, localVars, dishDays,
                   fetched, lastKind, result, http>>

Next ==
    \/ Tick
    \/ CallScrape
    \/ CronStart
    \/ CronEmail
    \/ BoundsStart
    \/ BoundsEnd
    \/ Stamp
    \/ FetchDay
    \/ EndLoop
    \/ WriteWeek
    \/ WriteStatusOk
    \/ WriteStatusFail

Spec == Init /\ [][Next]_vars

\* ------------------------------------- _classify_category on bounded headings
SeqsUpTo(S, n) == UNION {[1..m -> S] : m \in 0..n}

PadChars == {"-", " "}
Pads == SeqsUpTo(PadChars, MaxPad)

\* table entries as the site writes them, and headings that only resemble one
Cores ==
    { <<"T","o","d","a","y","'","s"," ","S","o","u","p">>,
      <<"E","N","T","R","E","E","S">>,
      <<"E","n","t","r","E^","e">>,
      <<"V","e","g",",","V","e","g","a","n">>,
      <<"S","t","a","r","c","h"," ","a","n","d"," ","P","o","t","a","t","o","e","s">>,
      <<"V","e","g","e","t","a","b","l","e","s">>,
      <<"D","e","s","s","e","r","t","s">>,
      <<"D","e","l","i","s","h">>,
      H_SaladBar,
      <<"G","r","i","l","l">>,
      <<"H","a","l","a","l">>,
      <<"S","o","u","p">>,
      <<"E","n","t","r","e","e">>,
      <<"D","e","l","i","s","h"," ","B","a","r">>,
      <<"D","e","-","l","i","s","h">>,
      <<"D","e","-","-","l","i","s","h">>,
      <<"V","e","g","e","-","-","t","a","b","l","e","s">>,
      <<>> }

Headings == {pre \o core \o suf : pre \in Pads, core \in Cores, suf \in Pads}

InitClassify ==
    /\ IdleWeek /\ IdleDay /\ IdleNormalize
    /\ heading \in Headings
    /\ bucketOut = "unset"

Classify ==
    /\ bucketOut = "unset"
    /\ bucketOut' = _classify_category(heading)
    /\ UNCHANGED <<weekVars, dayVars, normVars, heading>>

NextClassify == Classify

SpecClassify == InitClassify /\ [][NextClassify]_vars

\* ------------------------------------------------ parse_day on bounded pages
ElemSet ==
    {Elem(CAT_CLASS, H_TodaysSoup), Elem(CAT_CLASS, H_Delish), Elem(CAT_CLASS, H_SaladBar),
     Elem(RECIPE_CLASS, D_TomatoBasil), Elem(RECIPE_CLASS, D_Smoothie),
     Elem(RECIPE_CLASS, D_OnlyMarker)}

Columns == {<<>>} \cup {<<es>> : es \in SeqsUpTo(ElemSet, MaxElems)}

ColumnLen(col) == IF col = <<>> THEN 0 ELSE Len(col[1])

DayPages ==
    {pg \in [lunch : Columns, dinner : Columns] :
        ColumnLen(pg.lunch) + ColumnLen(pg.dinner) <= MaxElems}
    \cup {DupPage}

MealName(ph) == IF ph = "lunch" THEN "Lunch" ELSE "Dinner"
NextPhase(ph) == IF ph = "lunch" THEN "dinner" ELSE "done"

InitDay ==
    /\ IdleWeek /\ IdleClassify /\ IdleNormalize
    /\ page \in DayPages
    /\ phase = "lunch"
    /\ pos = 0
    /\ walk = WalkInit
    /\ parsed = EmptyDay

\* _parse_meal_container: one iteration of "for elem in all_elements"
WalkStep ==
    /\ phase \in {"lunch", "dinner"}
    /\ page[phase] # <<>>
    /\ pos < Len(page[phase][1])
    /\ walk' = WalkElem(walk, page[phase][1][pos + 1])
    /\ pos' = pos + 1
    /\ UNCHANGED <<weekVars, classifyVars, normVars, page, phase, parsed>>

\* _parse_meal_container after the loop: dedupe, blank dinner's delish, return
FinishColumn ==
    /\ phase \in {"lunch", "dinner"}
    /\ page[phase] # <<>>
    /\ pos = Len(page[phase][1])
    /\ parsed' = [parsed EXCEPT ![phase] = FinishMeal(walk.data, MealName(phase))]
    /\ phase' = NextPhase(phase)
    /\ pos' = 0
    /\ walk' = WalkInit
    /\ UNCHANGED <<weekVars, classifyVars, normVars, page>>

\* parse_day: the meal column is missing from the page
MissingColumn ==
    /\ phase \in {"lunch", "dinner"}
    /\ page[phase] = <<>>
    /\ parsed' = [parsed EXCEPT ![phase] = _init_meal_bucket(phase = "lunch")]
    /\ phase' = NextPhase(phase)
    /\ UNCHANGED <<weekVars, classifyVars, normVars, page, pos, walk>>

NextDay ==
    \/ WalkStep
    \/ FinishColumn
    \/ MissingColumn

SpecDay == InitDay /\ [][NextDay]_vars

\* ------------------------------------- _normalize_text on bounded dish texts
NormChars == {"(", ")", "v", " ", "R"}

D_RiceSoy == <<"R","i","c","e"," "," ","(","C","o","n","t","a","i","n","s"," ",
               "S","o","y",")"," ","-">>

DishTexts ==
    SeqsUpTo(NormChars, MaxText) \cup {D_TomatoBasil, D_Smoothie, D_OnlyMarker, D_RiceSoy}

InitNormalize ==
    /\ IdleWeek /\ IdleClassify /\ IdleDay
    /\ dishText \in DishTexts
    /\ cleanText = Unset

Normalize ==
    /\ cleanText = Unset
    /\ cleanText' = _normalize_text(dishText)
    /\ UNCHANGED <<weekVars, classifyVars, dayVars, dishText>>

NextNormalize == Normalize

SpecNormalize == InitNormalize /\ [][NextNormalize]_vars

\* the walk, taken step by step, returns what parse_day returns
WalkAgreesWithParseDay == (phase = "done" /\ page \in DayPages) => parsed = parse_day(page)

\* ===================================================================== claims
HasDish(day) == \E m \in DOMAIN day : \E b \in DOMAIN day[m] : day[m][b] # <<>>

AllEmpty(day) == {"lunch", "dinner"} \subseteq DOMAIN day /\ ~HasDish(day)

DocHasDish(doc) == \E n \in 1..Len(doc.meals) : HasDish(doc.meals[n].val)

IsPrefix(p, q) == Len(p) <= Len(q) /\ SubSeq(q, 1, Len(p)) = p

\* the file that the latest write_status call has written
StatusWritten == IF writable THEN statusFile ELSE statusTmp

StatusIsOk ==
    /\ StatusWritten # <<>>
    /\ StatusWritten[1].last_scrape_ok = TRUE
    /\ StatusWritten[1].error = "None"

StatusIsFailed(kind) ==
    /\ StatusWritten # <<>>
    /\ StatusWritten[1].last_scrape_ok = FALSE
    /\ StatusWritten[1].error = kind

FetchStep == pc = "loop" /\ Len(fetched') = Len(fetched) + 1

\* C1: a day whose fetch raises fetch_failed is stored as an all-empty day for
\* that date and the loop goes on; the entries stored are kept until the
\* document is returned; and a week that holds a dish at the end of the loop is
\* written, the status record is written with last_scrape_ok = true and
\* error = null, and the document is returned.
C1_Step ==
    /\ (FetchStep /\ lastKind' = "fetch_failed") =>
           /\ pc' = "loop"
           /\ result' = result
           /\ Len(out'.meals) = Len(out.meals) + 1
           /\ out'.meals[Len(out'.meals)].key = isoformat(fetched'[Len(fetched')])
           /\ AllEmpty(out'.meals[Len(out'.meals)].val)
    /\ (pc \in {"loop", "write_week"} /\ pc' \in {"loop", "write_week", "write_status_ok"}) =>
           IsPrefix(out.meals, out'.meals)
    /\ (pc = "loop" /\ pc' # "loop" /\ ~FetchStep /\ DocHasDish(out)) => pc' = "write_week"
    /\ (pc = "write_week" /\ pc' # pc) => pc' = "write_status_ok"
    /\ (pc = "write_status_ok" /\ pc' # pc) =>
           /\ result' = [status |-> "returned", kind |-> "None", doc |-> out]
           /\ StatusIsOk'

C1_FetchFailureAbsorbed == [][C1_Step]_vars

C1_Witness ==
    /\ result.status = "returned"
    /\ lastKind = "fetch_failed"
    /\ result.doc.meals[7].key = isoformat(fetched[7])
    /\ AllEmpty(result.doc.meals[7].val)
    /\ DocHasDish(result.doc)
    /\ StatusIsOk

\* C2: parse_failed is raised exactly when the loop has ended with no dish in
\* any bucket of any of the seven days: it is raised only after all seven
\* dates have been fetched, and a week that holds a dish is returned instead.
C2_ParseFailedIffNoDish ==
    /\ pc = "write_status_fail" =>
           /\ result.kind = "parse_failed"
           /\ Len(out.meals) = 7
           /\ ~DocHasDish(out)
    /\ result.kind = "parse_failed" => (Len(fetched) = 7 /\ fetched = week_date_list(fetched[1]))
    /\ pc \in {"write_week", "write_status_ok"} =>
           (Len(fetched) = 7 /\ Len(out.meals) = 7 /\ DocHasDish(out))
    /\ result.status = "returned" => DocHasDish(result.doc)

C2_Witness ==
    /\ result.status = "raised"
    /\ result.kind = "parse_failed"
    /\ Len(fetched) = 7

\* C3: an exception other than ScrapeError raised by the fetch function or by
\* parse_day is absorbed: the day is stored as an empty day and the run goes on.
C3_AnyExceptionAbsorbed ==
    lastKind = "exception" =>
        /\ result.status # "raised"
        /\ Len(out.meals) = Len(fetched)
        /\ AllEmpty(out.meals[Len(out.meals)].val)

\* C4: the stored week document changes only in the write_week step of a run
\* whose assembled document holds a dish, and then becomes that document; no
\* other step, in particular none of a failing run, changes, empties or
\* deletes it.
C4_Step ==
    /\ (weekFile' # weekFile \/ weekTmp' # weekTmp) =>
           /\ pc = "write_week"
           /\ DocHasDish(out)
           /\ <<weekFile', weekTmp'>> \in {<<(<<out>>), weekTmp>>, <<weekFile, (<<out>>)>>}
    /\ (pc \in {"write_status_fail", "loop"} /\ pc' = "idle") =>
           /\ weekFile' = weekFile /\ weekTmp' = weekTmp
           /\ result'.status = "raised"

C4_WeekWrittenOnlyOnSuccess == [][C4_Step]_vars

C4_Witness ==
    /\ result.status = "raised"
    /\ result.kind = "parse_failed"
    /\ weekFile # <<>>
    /\ DocHasDish(weekFile[1])
    /\ StatusIsFailed("parse_failed")

\* C5: a run that has ended has either returned a document with the status
\* record written ok, or raised parse_failed with the status record written
\* failed with error parse_failed.
C5_TwoTerminalStates ==
    /\ result.status = "returned" => StatusIsOk
    /\ result.status = "raised" =>
           (result.kind = "parse_failed" /\ StatusIsFailed("parse_failed"))

\* C6: a returned document has week_start on a Monday, week_end six days
\* later, and exactly seven entries keyed by the seven consecutive ISO dates
\* from week_start, whenever the clock is read.
DateRange == 20080..20130

C6_WeekShape ==
    result.status = "returned" =>
        \E d \in DateRange :
            /\ weekday(d) = 0
            /\ result.doc.week_start = isoformat(d)
            /\ result.doc.week_end = isoformat(d + 6)
            /\ Len(result.doc.meals) = 7
            /\ \A n \in 1..7 : result.doc.meals[n].key = isoformat(d + (n - 1))

\* C7: a parsed day has the keys lunch and dinner; lunch has the six bucket
\* keys, dinner the five bucket keys without delish; every value is a list.
IsList(x) == DOMAIN x = 1..Len(x)

C7_DayMenuKeys ==
    phase = "done" =>
        /\ DOMAIN parsed = {"lunch", "dinner"}
        /\ DOMAIN parsed.lunch = Buckets
        /\ DOMAIN parsed.dinner = Buckets \ {"delish"}
        /\ \A m \in DOMAIN parsed : \A b \in DOMAIN parsed[m] : IsList(parsed[m][b])

\* the bucket that the nearest category header before element n maps to
NearestBucket(elems, n) ==
    LET hs == {j \in 1..(n - 1) : CAT_CLASS \in elems[j].classes}
    IN  IF hs = {} THEN "None"
        ELSE _classify_category(elems[CHOOSE j \in hs : \A q \in hs : q <= j].text)

IsDish(elems, n) == CAT_CLASS \notin elems[n].classes /\ RECIPE_CLASS \in elems[n].classes

\* the column lists a dish with a name under a Delish header
ListsDelish(col) ==
    /\ col # <<>>
    /\ \E n \in 1..Len(col[1]) :
           /\ IsDish(col[1], n)
           /\ NearestBucket(col[1], n) = "delish"
           /\ _normalize_text(col[1][n].text) # <<>>

\* C8: the dinner delish list of every parsed day is empty, also when the
\* dinner column lists dishes under a Delish header; the lunch delish list
\* still holds the dishes that the lunch column lists under a Delish header.
C8_DinnerDelishEmpty ==
    phase = "done" =>
        /\ parsed.dinner.delish = <<>>
        /\ ListsDelish(page.lunch) <=> parsed.lunch.delish # <<>>

C8_Witness ==
    /\ phase = "done"
    /\ ListsDelish(page.dinner)
    /\ parsed.dinner.delish = <<>>

\* C9: each step of the walk over a meal column leaves every bucket as it was,
\* except that a dish entry with a non-empty normalized name is appended to
\* the bucket that the nearest preceding category header maps to, and to that
\* bucket only; a dish entry before any header, or whose nearest preceding
\* header is unmapped, is appended to no bucket; after an unmapped header no
\* bucket is active.
C9_Step ==
    (phase \in {"lunch", "dinner"} /\ pos' = pos + 1) =>
        LET elems == page[phase][1]
            n     == pos + 1
            nb    == NearestBucket(elems, n)
            name  == _normalize_text(elems[n].text)
        IN  /\ IsDish(elems, n) =>
                \A b \in Buckets :
                    walk'.data[b] = IF b = nb /\ name # <<>>
                                    THEN Append(walk.data[b], name)
                                    ELSE walk.data[b]
            /\ ~IsDish(elems, n) => walk'.data = walk.data
            /\ walk'.cur = NearestBucket(elems, n + 1)

C9_DishGoesToNearestHeader == [][C9_Step]_vars

C9_Witness ==
    /\ phase = "lunch"
    /\ pos = 3
    /\ _classify_category(page.lunch[1][1].text) = "soups"
    /\ CAT_CLASS \in page.lunch[1][2].classes
    /\ _classify_category(page.lunch[1][2].text) = "None"
    /\ IsDish(page.lunch[1], 3)
    /\ _normalize_text(page.lunch[1][3].text) # <<>>
    /\ walk.cur = "None"
    /\ walk.data = EmptyMealData

\* C10: a heading maps to a bucket exactly when, lower-cased and stripped of
\* its leading and trailing dash runs and of the surrounding whitespace, it
\* equals an entry of the table, and then to that entry's bucket; every other
\* heading maps to None.
StrippedHeading(h) == Strip(StripDashRuns(Lower(h)), WS)

TableBucket(cat) ==
    IF cat = T_todays_soup THEN "soups"
    ELSE IF cat \in {T_entrees, T_entree_acute, T_veg_vegan} THEN "entrees"
    ELSE IF cat = T_starch_and_potatoes THEN "starch_potatoes"
    ELSE IF cat = T_vegetables THEN "vegetables"
    ELSE IF cat = T_desserts THEN "desserts"
    ELSE IF cat = T_delish THEN "delish"
    ELSE "None"

C10_ExactMatch ==
    bucketOut # "unset" => bucketOut = TableBucket(StrippedHeading(heading))

\* C11: a dish text that contains a parenthetical group beginning with a
\* marker is returned without any such group, without a run of two or more
\* whitespace characters and without leading or trailing whitespace.
HasMarkerGroup(t) ==
    \E n \in 1..Len(t) : t[n] = "(" /\ MarkerGroupAt(SubSeq(t, n + 1, Len(t)))

HasWsRun(t) == \E n \in 1..(Len(t) - 1) : t[n] \in WS /\ t[n + 1] \in WS

C11_MarkerGroupsRemoved ==
    (cleanText # Unset /\ HasMarkerGroup(dishText)) =>
        /\ ~HasMarkerGroup(cleanText)
        /\ ~HasWsRun(cleanText)
        /\ cleanText = Strip(cleanText, WS)

\* C12: when a meal column has been walked, every bucket list returned has no
\* repeated entry, holds the first occurrence of each collected name in the
\* order of collection, and has as many entries as there are distinct
\* collected names (dinner's delish list apart, which is blanked).
NoRepeat(l) == \A n \in 1..Len(l) : \A q \in 1..(n - 1) : l[q] # l[n]

FirstIdx(l) == {n \in 1..Len(l) : \A q \in 1..(n - 1) : l[q] # l[n]}

FirstOccurrences(l) ==
    [j \in 1..Cardinality(FirstIdx(l)) |->
        l[CHOOSE n \in FirstIdx(l) : Cardinality({q \in FirstIdx(l) : q < n}) = j - 1]]

C12_Step ==
    (phase \in {"lunch", "dinner"} /\ phase' # phase /\ page[phase] # <<>>) =>
        \A b \in Buckets :
            (phase = "dinner" /\ b = "delish") \/
                /\ NoRepeat(parsed'[phase][b])
                /\ parsed'[phase][b] = FirstOccurrences(walk.data[b])
                /\ Len(parsed'[phase][b]) =
                       Cardinality({walk.data[b][n] : n \in 1..Len(walk.data[b])})

C12_DedupeKeepsFirst == [][C12_Step]_vars

C12_Witness ==
    /\ phase = "done"
    /\ page = DupPage
    /\ parsed.lunch.soups = <<D_TomatoBasilPlain, D_Smoothie>>

\* C13: when scrape_and_store has returned a document, read_week() returns that
\* document, and /api/week serves it, wherever write_week has written it.
C13_ReadWeekIsReturned ==
    (pc = "idle" /\ result.status = "returned") =>
        /\ read_week = <<result.doc>>
        /\ api_week.body = result.doc

\* C14: no run ends with an error of kind fetch_failed, no status record ever
\* holds the error fetch_failed, and /api/refresh never answers 503.
C14_FetchFailedNeverSurfaces ==
    /\ result.kind # "fetch_failed"
    /\ \A f \in {statusFile, statusTmp} : f # <<>> => f[1].error # "fetch_failed"
    /\ http # 503

C14_Witness ==
    /\ req = "none"
    /\ http = 500
    /\ lastKind = "fetch_failed"
    /\ result.status = "raised"
    /\ result.kind = "parse_failed"
    /\ StatusIsFailed("parse_failed")

\* C15: no bucket list of the walk or of a parsed day holds an empty string: a
\* dish entry whose text normalizes to the empty string is not stored.
NoBlank(meal) == \A b \in DOMAIN meal : \A n \in 1..Len(meal[b]) : meal[b][n] # <<>>

C15_NoEmptyDish ==
    /\ NoBlank(walk.data)
    /\ NoBlank(parsed.lunch)
    /\ NoBlank(parsed.dinner)

C15_Witness ==
    /\ phase = "done"
    /\ page.lunch # <<>>
    /\ \E n \in 1..Len(page.lunch[1]) :
           /\ IsDish(page.lunch[1], n)
           /\ NearestBucket(page.lunch[1], n) = "soups"
           /\ _normalize_text(page.lunch[1][n].text) = <<>>
    /\ parsed.lunch.soups = <<>>

\* C16: the dates fetched so far in a run are the first dates of its
\* Monday-to-Sunday list, each once and in order; the entries of meals are
\* keyed by them in the same order; and a run that has ended has fetched all
\* seven dates of one week.
C16_SevenFetchesInOrder ==
    /\ pc \in {"loop", "write_week", "write_status_ok"} =>
           /\ IsPrefix(fetched, dates)
           /\ dates = week_date_list(dates[1])
           /\ Len(out.meals) = Len(fetched)
           /\ \A n \in 1..Len(fetched) : out.meals[n].key = isoformat(fetched[n])
    /\ (pc = "idle" /\ result.status \in {"returned", "raised"}) =>
           /\ Len(fetched) = 7
           /\ fetched = week_date_list(fetched[1])

\* C17: whenever the status record read back has last_scrape_ok = true, a week
\* document can be read, it holds a dish, and once a run has ended it is the
\* document that this most recent run returned.
C17_OkStatusHasWeek ==
    (read_status # <<>> /\ read_status[1].last_scrape_ok = TRUE) =>
        /\ read_week # <<>>
        /\ DocHasDish(read_week[1])
        /\ (pc = "idle" /\ result.status # "none") =>
               (result.status = "returned" /\ read_week[1] = result.doc)

\* C18: /api/cron starts a scrape only when read_week() finds no document; when
\* one is stored, whatever its week, cron starts no scrape, leaves the week
\* document and the status record as they are and hands the emailer the stored
\* day of today's New York date, or, when the document has no such day, the
\* all-empty day that api_today builds.
StoredDay(now) ==
    LET today == isoformat(today_ny_date(now))
        held  == {n \in 1..Len(read_week[1].meals) : read_week[1].meals[n].key = today}
    IN  IF held = {} THEN <<>> ELSE <<read_week[1].meals[CHOOSE n \in held : TRUE].val>>

IsEmptyTodayDay(day) ==
    /\ DOMAIN day = {"lunch", "dinner"}
    /\ DOMAIN day.lunch = Buckets
    /\ DOMAIN day.dinner = Buckets \ {"delish"}
    /\ ~HasDish(day)

C18_Step ==
    /\ (req = "none" /\ req' = "cron") =>
           /\ pc' # "idle" <=> read_week = <<>>
           /\ UNCHANGED storeVars
    /\ (req = "cron" /\ req' = "none") =>
           /\ UNCHANGED storeVars
           /\ read_week # <<>> =>
                  /\ Len(emailDay') = 1
                  /\ IF StoredDay(clock) # <<>>
                     THEN emailDay'[1] = StoredDay(clock)[1]
                     ELSE IsEmptyTodayDay(emailDay'[1])

====
